---------------------------- MODULE Spec2Model ----------------------------
(***************************************************************************)
(* Model of the SharePoint connector's incremental crawl-and-reconcile     *)
(* pipeline (src/fetch_index.py): the coordinator loop start(), the        *)
(* partition workers FetchIndex.indexing, the window partitioner           *)
(* datetime_partitioning and the registry merge on the shared storage.     *)
(*                                                                         *)
(* Times are whole seconds (DATETIME_FORMAT has no fraction); datetime     *)
(* values inside datetime_partitioning are microseconds.  Python dicts are *)
(* functions, dict.update is function override, a dict is falsy when its   *)
(* domain is empty.  The source endpoint and the sink are external: every  *)
(* response and every raise is an input of the step that makes the call.   *)
(***************************************************************************)
EXTENDS Integers, Sequences, FiniteSets, TLC

VARIABLES
    data,                    \* the configuration read by reload_configs()
    universe,                \* objects the source endpoint can return
    indexing_type,           \* argument of start(): "incremental" | "full_sync"
    now,                     \* the wall clock (datetime.utcnow), in seconds
    pc,                      \* position of start() in its loop
    current_time,            \* start(): current_time of the running cycle
    file,                    \* doc_id.json at IDS_PATH
    ids_collection,          \* start(): ids_collection["global_keys"]
    storage_with_collection, \* start(): what the cycle will dump to IDS_PATH
    coll,                    \* index of the collection the for loop is at
    window,                  \* start(): start_time, end_time of the collection
    storage,                 \* the Manager().dict shared by one collection's workers
    is_error_shared,         \* the Manager().list of failure flags
    jobs,                    \* the multiprocessing.Process objects of the collection
    checkpoint,              \* the checkpoint store behind Checkpoint
    sink,                    \* observable calls on the sink in the running cycle
    probe                    \* inputs and result of a run of one function alone

vars == <<data, universe, indexing_type, now, pc, current_time, file,
          ids_collection, storage_with_collection, coll, window, storage,
          is_error_shared, jobs, checkpoint, sink, probe>>

-----------------------------------------------------------------------------
(* Bounds of the model.                                                    *)

MaxTime == 2
MaxWorkers == 2
MaxSpan == 12
MaxProcesses == 4
MaxDocs == 250
MaxRoles == 2
MaxUsers == 2
MaxItems == 2
MaxSites == 3
MaxLists == 2

-----------------------------------------------------------------------------
(* Python values.                                                          *)

SITES == "sites"
LISTS == "lists"
ITEMS == "items"

EmptyDict == [k \in {} |-> {}]

\* dict.update(e): keys of e win.
DictUpdate(d, e) ==
    [k \in (DOMAIN d) \cup (DOMAIN e) |-> IF k \in DOMAIN e THEN e[k] ELSE d[k]]

\* Truthiness of a dict.
Truthy(d) == DOMAIN d # {}

\* A Python value as it compares under ==: a bool never equals a str.
PyBool(b) == [type |-> "bool", repr |-> IF b THEN "True" ELSE "False"]
PyStr(s) == [type |-> "str", repr |-> s]

EmptyRegistry == [sites |-> EmptyDict, lists |-> EmptyDict, list_items |-> EmptyDict]

RegistryLevels == <<"sites", "lists", "list_items">>

-----------------------------------------------------------------------------
(* datetime_partitioning and the window slicing of start().                *)

USEC == 1000000

strptime(s) == s * USEC

\* strftime with DATETIME_FORMAT drops the microseconds.
strftime(dt) == dt \div USEC

\* timedelta / int: rounds to the nearest microsecond, half to even.
DivideNearest(a, b) ==
    LET q == a \div b
        r == 2 * (a % b)
    IN IF r > b \/ (r = b /\ q % 2 = 1) THEN q + 1 ELSE q

datetime_partitioning_interpolated(start_time, end_time, processes) ==
    LET s == strptime(start_time)
        e == strptime(end_time)
        diff == DivideNearest(e - s, processes)
    IN [idx \in 1..(processes + 1) |-> s + diff * (idx - 1)]

datetime_partitioning(start_time, end_time, processes) ==
    LET s == strptime(start_time)
        e == strptime(end_time)
        diff == DivideNearest(e - s, processes)
    IN [idx \in 1..(processes + 1) |->
            IF idx <= processes THEN s + diff * (idx - 1) ELSE e]

\* start(): datelist, the partitions formatted back to strings.
DateList(start_time, end_time, worker_process) ==
    LET partitions == datetime_partitioning(start_time, end_time, worker_process)
    IN [i \in DOMAIN partitions |-> strftime(partitions[i])]

\* start(): the (start_time_partition, end_time_partition) of job num.
JobWindows(start_time, end_time, worker_process) ==
    LET datelist == DateList(start_time, end_time, worker_process)
    IN [num \in 1..worker_process |->
            [start_time |-> datelist[num], end_time |-> datelist[num + 1]]]

-----------------------------------------------------------------------------
(* The crawl of one partition worker: FetchIndex.indexing, lines 521-554.  *)
(* A crawl state st is the worker's private data: ids (its registry),      *)
(* is_error (self.is_error), sites and lists (the locals of indexing),     *)
(* raised (whether a sink call of this crawl has raised) and recorded (the *)
(* registry entries this crawl has written into ids).  Each operator       *)
(* yields the set of results its calls on the source and the sink allow.   *)

\* None, an empty list and a list, as check_response hands them back.
PyNone == [type |-> "NoneType"]
PyEmptyList == [type |-> "list", len |-> 0]
PyList(value) == [type |-> "list", value |-> value]

\* "if not response_data": None and [] are falsy; a list is tested by the caller
\* on its value, a set of objects in the crawl and a sequence in the item loop.
IsList(v) == v.type = "list" /\ "value" \in DOMAIN v
AsSet(v) == IF IsList(v) THEN v.value ELSE {}
AsSeq(v) == IF IsList(v) THEN v.value ELSE <<>>

\* What sharepoint_client.get hands back: falsy (no response, or a status that
\* is not a success), or a response whose body does not parse ("invalid"),
\* parses without d.results ("absent") or parses with results.
Responses(results) ==
    {[ok |-> FALSE, json |-> "invalid", results |-> results],
     [ok |-> TRUE, json |-> "invalid", results |-> results],
     [ok |-> TRUE, json |-> "absent", results |-> results],
     [ok |-> TRUE, json |-> "results", results |-> results]}

\* check_response without the tests of lines 45 and 51: the results of any
\* response that carries some.
check_response_lenient(response, param_name) ==
    IF response.json = "absent" THEN PyNone ELSE PyList(response.results)

\* Lines 35-57.
check_response(response, param_name) ==
    IF ~response.ok
    THEN IF param_name = "attachment" THEN PyNone
         ELSE IF param_name = SITES THEN PyNone ELSE PyEmptyList
    ELSE IF response.json = "invalid"
         THEN IF param_name = SITES THEN PyNone ELSE PyEmptyList
         ELSE IF response.json = "absent" THEN PyNone
              ELSE PyList(response.results)

\* Line 89: the staged documents are cut into chunks of DOCUMENT_SIZE.
DOCUMENT_SIZE == 100

ChunkCount(n) == (n + DOCUMENT_SIZE - 1) \div DOCUMENT_SIZE

ChunkSize(n, i) ==
    IF i * DOCUMENT_SIZE <= n THEN DOCUMENT_SIZE ELSE n - (i - 1) * DOCUMENT_SIZE

\* Lines 87-107 on n staged documents; raising holds the chunks whose submission
\* raises once it is made.  The try encloses the loop: the first raise leaves
\* it.  With no document, line 103 reads total_documents_indexed before it is
\* bound, and the UnboundLocalError is caught like any other exception.
index_document(n, raising) ==
    LET failing == raising \cap (1..ChunkCount(n))
        first == CHOOSE c \in failing : \A d \in failing : c <= d
    IN IF n = 0 THEN [submitted |-> {}, is_error |-> TRUE]
       ELSE IF failing # {} THEN [submitted |-> 1..first, is_error |-> TRUE]
       ELSE [submitted |-> 1..ChunkCount(n), is_error |-> FALSE]

\* The field map of a document type, canonical field name to source attribute;
\* adapter.DEFAULT_SCHEMA may or may not carry an id entry of its own.
DEFAULT_SCHEMA(document_name, with_id) ==
    IF with_id
    THEN [k \in {"title", "created", "id"} |->
            IF k = "title" THEN "Title"
            ELSE IF k = "created" THEN "Created"
            ELSE IF document_name = ITEMS THEN "GUID" ELSE "Id"]
    ELSE [k \in {"title", "created"} |->
            IF k = "title" THEN "Title" ELSE "Created"]

\* {key: val for key, val in adapter_schema.items() if keep(val)}.
Filtered(adapter_schema, kept) ==
    [k \in {x \in DOMAIN adapter_schema : adapter_schema[x] \in kept} |->
        adapter_schema[k]]

\* adapter_schema["id"] = value.
WithId(adapter_schema, value) ==
    [k \in DOMAIN adapter_schema \cup {"id"} |->
        IF k = "id" THEN value ELSE adapter_schema[k]]

\* get_schema_fields with the two tests of lines 120-123 in the other order.
get_schema_fields_exclude_first(document_name, adapter_schema, fields) ==
    IF ~fields.present THEN adapter_schema
    ELSE WithId(IF fields.exclude_fields # {}
                THEN Filtered(adapter_schema,
                              {adapter_schema[x] : x \in DOMAIN adapter_schema} \ fields.exclude_fields)
                ELSE IF fields.include_fields # {}
                     THEN Filtered(adapter_schema, fields.include_fields)
                     ELSE adapter_schema,
                IF document_name = ITEMS THEN "GUID" ELSE "Id")

\* Lines 109-125.  fields is self.objects.get(document_name): falsy (not
\* present), or a mapping whose include_fields and exclude_fields are lists,
\* an empty or missing list being falsy.
get_schema_fields(document_name, adapter_schema, fields) ==
    IF ~fields.present THEN adapter_schema
    ELSE WithId(IF fields.include_fields # {}
                THEN Filtered(adapter_schema, fields.include_fields)
                ELSE IF fields.exclude_fields # {}
                     THEN Filtered(adapter_schema,
                                   {adapter_schema[x] : x \in DOMAIN adapter_schema} \ fields.exclude_fields)
                     ELSE adapter_schema,
                IF document_name = ITEMS THEN "GUID" ELSE "Id")

\* rows.get(name, name) on the rows read from the mapping sheet, lines 487-492.
Mapped(rows, name) == IF name \in DOMAIN rows THEN rows[name] ELSE name

\* Lines 499-509 for one role: the (user, permission) pairs pushed, in order.
\* "if users" tests the dict under Member.Users, truthy as soon as it is there.
RoleGrants(role, rows) ==
    IF role.Users.present
    THEN [i \in DOMAIN role.Users.results |->
            <<Mapped(rows, role.Users.results[i]), role.Title>>]
    ELSE <<<<Mapped(rows, role.Title), Mapped(rows, role.Title)>>>>

RECURSIVE AllGrants(_, _)
AllGrants(roles, rows) ==
    IF roles = <<>> THEN <<>>
    ELSE RoleGrants(Head(roles), rows) \o AllGrants(Tail(roles), rows)

\* Lines 465-510; raising holds the pushes on which the sink raises, each caught
\* by workplace_add_permission (lines 456-463).  check_response hands back None
\* for a response without d.results, and line 498 iterates over it.
index_permissions(roles_response, rows, raising) ==
    LET roles == check_response(roles_response, "roles")
        grants == AllGrants(AsSeq(roles), rows)
    IN IF roles = PyNone
       THEN [uncaught |-> TRUE, groups |-> <<>>, grants |-> <<>>, is_error |-> FALSE]
       ELSE [uncaught |-> FALSE,
             groups |-> [i \in DOMAIN AsSeq(roles) |-> AsSeq(roles)[i].Title],
             grants |-> grants,
             is_error |-> raising \cap DOMAIN grants # {}]

\* Lines 369-380 for the num-th item of the response: the body of its document
\* ("absent" when doc has no body key, "empty" for {}), or the exception that
\* leaves index_items.  file_response_data is indexed by the item's position.
AttachmentBody(item, num, file_response_data, download, extraction) ==
    IF ~item.Attachments THEN "absent"
    ELSE IF file_response_data = PyNone THEN "TypeError"
    ELSE IF num > Len(AsSeq(file_response_data)) THEN "IndexError"
    ELSE IF AsSeq(file_response_data)[num].AttachmentFiles = <<>> THEN "IndexError"
    ELSE IF download # "ok" THEN "absent"
    ELSE IF extraction = "TikaException" THEN "empty"
    ELSE "text"

\* Lines 368-391: the documents staged for one list, from item num on.
RECURSIVE ItemDocuments(_, _, _, _, _, _, _)
ItemDocuments(response_data, num, file_response_data, downloads, extractions, roles, enable_permission) ==
    IF num > Len(response_data)
    THEN [uncaught |-> FALSE, document |-> <<>>]
    ELSE LET body == AttachmentBody(response_data[num], num, file_response_data,
                                    downloads[num], extractions[num])
             rest == ItemDocuments(response_data, num + 1, file_response_data,
                                   downloads, extractions, roles, enable_permission)
         IN IF \/ body \in {"TypeError", "IndexError"}
               \/ enable_permission /\ index_permissions(roles[num], <<>>, {}).uncaught
               \/ rest.uncaught
            THEN [uncaught |-> TRUE, document |-> <<>>]
            ELSE [uncaught |-> FALSE,
                  document |-> <<[GUID |-> response_data[num].GUID, body |-> body]>>
                               \o rest.document]

\* Lines 346-397 for one list whose items response is not empty: the documents
\* handed to index_document and the GUIDs recorded, or the uncaught exception.
ListItems(response_data, file_response, downloads, extractions, roles, enable_permission, raising) ==
    LET staged == ItemDocuments(response_data, 1,
                                check_response(file_response, "attachment"),
                                downloads, extractions, roles, enable_permission)
        sent == index_document(Len(staged.document), raising)
    IN IF staged.uncaught
       THEN [uncaught |-> TRUE, document |-> <<>>, submitted |-> {}, is_error |-> FALSE]
       ELSE [uncaught |-> FALSE, document |-> staged.document,
             submitted |-> sent.submitted, is_error |-> sent.is_error]

\* Lines 214-274: the batches index_lists hands to index_document, one after
\* each site whose lists response is not empty; response gives the number of
\* lists each site answers with, document is the list bound at line 214, before
\* the loop over the sites.
RECURSIVE ListBatches(_, _, _, _)
ListBatches(sites, response, document, index) ==
    IF sites = <<>> THEN <<>>
    ELSE LET site == Head(sites)
             staged == document \o [num \in 1..response[site] |-> <<site, num>>]
         IN IF response[site] = 0 \/ ~index
            THEN ListBatches(Tail(sites), response, document, index)
            ELSE <<staged>> \o ListBatches(Tail(sites), response, staged, index)

SiteId(site) == <<"Id", site>>
ListId(site, title) == <<"Id", site, title>>

\* The GUIDs of a response, in the order the endpoint lists the items.
GuidSeq(order, S) == SelectSeq(order, LAMBDA g : g \in S)

Range(seq) == {seq[i] : i \in DOMAIN seq}

\* What the sink calls of one stage can do: index_document sets is_error when
\* a batch raises, workplace_add_permission when a grant raises; grants are
\* pushed only with enable_document_permission.
SinkErrors(called) ==
    IF called
    THEN {[batch |-> b, grant |-> g] :
            b \in BOOLEAN,
            g \in IF data.enable_permission THEN BOOLEAN ELSE {FALSE}}
    ELSE {[batch |-> FALSE, grant |-> FALSE]}

AfterSink(st, e, key) ==
    [st EXCEPT !.is_error = @ \/ e.batch \/ e.grant,
               !.raised = @ \/ e.batch \/ e.grant,
               !.permitted = @ \cup IF data.enable_permission THEN {key} ELSE {}]

\* Whether the stage of key, building documents, can end in an exception nothing
\* catches: index_permissions on the roles of a document (with permission
\* propagation), and in the items stage the attachment of a flagged item.
Uncaught(key, called) ==
    IF ~called THEN {FALSE}
    ELSE {FALSE}
         \cup {index_permissions(r, <<>>, {}).uncaught :
                  r \in IF data.enable_permission THEN Responses(<<>>) ELSE {}}
         \cup {(AttachmentBody([GUID |-> "g", Attachments |-> a], 1,
                               check_response(f, "attachment"), "ok", "text")
                    \in {"TypeError", "IndexError"}) :
                  a \in IF key = ITEMS THEN BOOLEAN ELSE {},
                  f \in Responses(<<>>)}

\* The exception leaves indexing(): nothing after it in the process runs.
Crashed(st) == [st EXCEPT !.crashed = TRUE]

\* One query of the source endpoint for the objects among objs: what
\* check_response makes of the response, and whether the response was a failed
\* or unparseable one.
SourceResults(objs, param_name) ==
    {[response_data |-> AsSet(check_response(r, param_name)),
      failed |-> ~r.ok \/ r.json = "invalid"] :
        r \in UNION {Responses(S) : S \in SUBSET objs}}

\* get_query(start_time, end_time, key) of the source client: the filter of a
\* query keeps the objects modified within the half-open window of the worker.
get_query(st, when) == {o \in DOMAIN when : st.start_time <= when[o] /\ when[o] < st.end_time}

\* One query by the worker st for the objects of when, a function from each
\* object to the time it was last modified.  A source with a fixed state answers
\* every query with the objects of the window; otherwise any of the objects may
\* have been modified in the window and any query may fail.
Query(st, when, param_name) ==
    IF universe.fixed
    THEN {[response_data |->
              AsSet(check_response([ok |-> TRUE, json |-> "results",
                                    results |-> get_query(st, when)], param_name)),
           failed |-> FALSE]}
    ELSE SourceResults(DOMAIN when, param_name)

SiteQuery(st) ==
    Query(st, [s \in universe.sites |->
                 IF universe.fixed THEN universe.modified.sites[s] ELSE 0], SITES)

ListQuery(st, site) ==
    Query(st, [t \in universe.lists[site] |->
                 IF universe.fixed THEN universe.modified.lists[<<site, t>>] ELSE 0],
          LISTS)

ItemQuery(st, l) ==
    Query(st, [g \in Range(universe.items[l]) |->
                 IF universe.fixed
                 THEN universe.modified.items[<<l[1], l[2], g>>] ELSE 0],
          ITEMS)

\* The crawl state once the query q has been answered.
Asked(st, q, index) ==
    [st EXCEPT !.fetch_failed = @ \/ q.failed,
               !.fetch_leaked = @ \/ (q.failed /\ q.response_data # {}),
               !.queried = @ \cup IF index THEN {<<SITES>>} ELSE {},
               !.requeried = @ \cup IF index THEN {} ELSE {<<SITES>>},
               !.empty = @ \cup IF index /\ q.response_data = {}
                                THEN {<<SITES>>} ELSE {}]

\* index_sites without the test of line 162: the sites are staged, their
\* permissions resolved and the registry updated whatever index says.
index_sites_indexing(st, index) ==
    {LET resp == q.response_data
         asked == Asked(st, q, index)
     IN IF resp = {}
        THEN [st |-> asked, response_data |-> resp]
        ELSE IF u
        THEN [st |-> Crashed(asked), response_data |-> resp]
        ELSE [st |-> AfterSink(
                        [asked EXCEPT !.ids.sites =
                            DictUpdate(@, [k \in {SiteId(s) : s \in resp} |-> k[2]]),
                                   !.recorded =
                            @ \cup {<<"sites", SiteId(s)>> : s \in resp}],
                        e, SITES),
              response_data |-> resp] :
        q \in SiteQuery(st), e \in SinkErrors(TRUE),
        u \in Uncaught(SITES, TRUE)}

\* Lines 127-180.
index_sites(st, index) ==
    {LET resp == q.response_data
         asked == Asked(st, q, index)
     IN IF resp = {} \/ ~index
        THEN [st |-> asked, response_data |-> resp]
        ELSE IF u
        THEN [st |-> Crashed(asked), response_data |-> resp]
        ELSE [st |-> AfterSink(
                        [asked EXCEPT !.ids.sites =
                            DictUpdate(@, [k \in {SiteId(s) : s \in resp} |-> k[2]]),
                                   !.recorded =
                            @ \cup {<<"sites", SiteId(s)>> : s \in resp}],
                        e, SITES),
              response_data |-> resp] :
        q \in SiteQuery(st), e \in SinkErrors(index),
        u \in Uncaught(SITES, index)}

get_site_paths(st, response_data) ==
    IF response_data = {}
    THEN {[st |-> o.st, sites |-> o.response_data] : o \in index_sites(st, FALSE)}
    ELSE {[st |-> st, sites |-> response_data]}

ListResponses(st, sites) ==
    {q \in [sites -> UNION {ListQuery(st, s) : s \in universe.sites}] :
        \A s \in sites : q[s] \in ListQuery(st, s)}

\* The query of key under the parent x: a site path for the lists of a site, a
\* (site path, list title) pair for the items of a list.
QueryOf(key, x) == IF key = LISTS THEN <<LISTS, x>> ELSE <<ITEMS, x[1], x[2]>>

\* The crawl state once every query of the function qs has been answered.
AskedAll(st, qs, key, index) ==
    LET all == {QueryOf(key, x) : x \in DOMAIN qs}
    IN [st EXCEPT !.fetch_failed = @ \/ \E x \in DOMAIN qs : qs[x].failed,
                  !.fetch_leaked =
                       @ \/ \E x \in DOMAIN qs :
                               qs[x].failed /\ qs[x].response_data # {},
                  !.queried = @ \cup IF index THEN all ELSE {},
                  !.requeried = @ \cup IF index THEN {} ELSE all,
                  !.empty = @ \cup IF index
                                   THEN {QueryOf(key, x) :
                                           x \in {y \in DOMAIN qs :
                                                    qs[y].response_data = {}}}
                                   ELSE {}]

index_lists(st, sites, index) ==
    IF sites = {}
    THEN {[st |-> st, responses |-> {}]}
    ELSE {LET r == [s \in sites |-> qs[s].response_data]
              asked == AskedAll(st, qs, LISTS, index)
              found == {s \in sites : r[s] # {}}
              kept == UNION {{<<s, t>> : t \in r[s]} : s \in found}
          IN IF found = {} \/ ~index
             THEN [st |-> asked, responses |-> kept]
             ELSE IF u
             THEN [st |-> Crashed(asked), responses |-> kept]
             ELSE [st |-> AfterSink(
                             [asked EXCEPT !.ids.lists =
                                 DictUpdate(@,
                                     [s \in found |->
                                         [k \in {ListId(s, t) : t \in r[s]} |-> k[3]]]),
                                        !.recorded =
                                 @ \cup {<<"lists", l[1], ListId(l[1], l[2])>> : l \in kept}],
                             e, LISTS),
                   responses |-> kept] :
            qs \in ListResponses(st, sites), e \in SinkErrors(index),
            u \in Uncaught(LISTS, index)}

get_lists_paths(st, sites, response_data) ==
    UNION {IF response_data = {}
              THEN {[st |-> o.st, lists |-> o.responses] :
                      o \in index_lists(p.st, p.sites, FALSE)}
              ELSE {[st |-> p.st, lists |-> response_data]} :
           p \in IF sites = {} THEN get_site_paths(st, {})
                  ELSE {[st |-> st, sites |-> sites]}}

ItemResponses(st, lists) ==
    {q \in [lists -> UNION {ItemQuery(st, l) : l \in DOMAIN universe.items}] :
        \A l \in lists : q[l] \in ItemQuery(st, l)}

index_items(st, lists) ==
    IF lists = {}
    THEN {st}
    ELSE {LET r == [l \in lists |-> qs[l].response_data]
              asked == AskedAll(st, qs, ITEMS, TRUE)
              found == {l \in lists : r[l] # {}}
              reset == DictUpdate(st.ids.list_items,
                                  [s \in {l[1] : l \in lists} |-> EmptyDict])
              filled == DictUpdate(reset,
                            [s \in {l[1] : l \in found} |->
                                [t \in {l[2] : l \in {x \in found : x[1] = s}} |->
                                    GuidSeq(universe.items[<<s, t>>], r[<<s, t>>])]])
          IN IF found = {}
             THEN [asked EXCEPT !.ids.list_items = reset]
             ELSE IF u
             THEN Crashed(asked)
             ELSE AfterSink(
                      [asked EXCEPT !.ids.list_items = filled,
                                 !.recorded =
                          @ \cup UNION {{<<"list_items", l[1], l[2], g>> : g \in r[l]} :
                                        l \in found}],
                      e, ITEMS) :
            qs \in ItemResponses(st, lists), e \in SinkErrors(TRUE),
            u \in Uncaught(ITEMS, TRUE)}

\* The crawl state once a sites query has returned the paths sp, or a lists
\* query the (site path, list title) pairs ls.
Found(st, key, answer) ==
    [st EXCEPT !.found = @ \cup {IF key = SITES THEN <<SITES, x>>
                                  ELSE <<LISTS, x[1], x[2]>> : x \in answer}]

\* The crawl state when the stage of key begins.
Begun(st, key) == [st EXCEPT !.ran = Append(@, key)]

\* Lines 530-532.
SitesStage(key, st) ==
    IF key = SITES
    THEN UNION {IF o.st.crashed
                THEN {o.st}
                ELSE {[Found(p.st, SITES, p.sites) EXCEPT !.sites = p.sites] :
                        p \in get_site_paths(o.st, o.response_data)} :
                o \in index_sites(Begun(st, SITES), TRUE)}
    ELSE {st}

\* Lines 535-543.
ListsStage(st) ==
    UNION {UNION {IF o.st.crashed
                  THEN {o.st}
                  ELSE {[Found(g.st, LISTS, g.lists) EXCEPT !.sites = p.sites,
                                                            !.lists = g.lists] :
                          g \in get_lists_paths(o.st, p.sites, o.responses)} :
                  o \in index_lists(Found(p.st, SITES, p.sites), p.sites, TRUE)} :
           p \in IF st.sites = {} THEN get_site_paths(Begun(st, LISTS), {})
                  ELSE {[st |-> Begun(st, LISTS), sites |-> st.sites]}}

\* Lines 549-551.
ItemsStage(st) ==
    UNION {index_items([Found(g.st, LISTS, g.lists) EXCEPT !.lists = g.lists],
                       g.lists) :
           g \in IF st.lists = {}
                  THEN get_lists_paths(Begun(st, ITEMS), st.sites, {})
                  ELSE {[st |-> Begun(st, ITEMS), lists |-> st.lists]}}

\* Lines 548-554.
ItemsBranch(key, st) ==
    IF st.crashed THEN {st}
    ELSE IF key = ITEMS /\ ~st.is_error THEN ItemsStage(st)
    ELSE IF st.is_error THEN {[st EXCEPT !.is_error = FALSE]}
    ELSE {st}

\* Lines 534-546, then the items branch unless the loop continued.
ListsBranch(key, st) ==
    IF st.crashed THEN {st}
    ELSE IF key = LISTS /\ ~st.is_error
    THEN UNION {ItemsBranch(key, s) : s \in ListsStage(st)}
    ELSE IF st.is_error THEN {[st EXCEPT !.is_error = FALSE]}
    ELSE ItemsBranch(key, st)

\* One pass of the loop "for key in self.objects".
LoopBody(key, st) ==
    IF st.crashed THEN {st}
    ELSE UNION {ListsBranch(key, s) : s \in SitesStage(key, st)}

RECURSIVE IndexingLoop(_, _)
IndexingLoop(objects, states) ==
    IF objects = <<>> THEN states
    ELSE IndexingLoop(Tail(objects),
                      UNION {LoopBody(Head(objects), s) : s \in states})

\* A FetchIndex built by __init__ and handed ids by start().
NewCrawl(ids, start_time, end_time) ==
    [start_time |-> start_time, end_time |-> end_time, ids |-> ids, is_error |-> FALSE, sites |-> {}, lists |-> {}, raised |-> FALSE,
     recorded |-> {}, crashed |-> FALSE, fetch_failed |-> FALSE,
     fetch_leaked |-> FALSE, ran |-> <<>>, queried |-> {}, requeried |-> {},
     empty |-> {}, found |-> {}, permitted |-> {}]

-----------------------------------------------------------------------------
(* The registry merge at the end of indexing, lines 567-571.               *)

\* prev_ids.update(ids[obj]), the value then stored as storage[obj].
MergeLevel(prev_ids, ids_obj) == DictUpdate(prev_ids, ids_obj)

\* The first level at or after from that "if ids.get(obj)" lets through;
\* Len(RegistryLevels) + 1 when there is none.
RECURSIVE NextLevel(_, _)
NextLevel(ids, from) ==
    IF from > Len(RegistryLevels) THEN from
    ELSE IF Truthy(ids[RegistryLevels[from]]) THEN from
    ELSE NextLevel(ids, from + 1)

\* The whole loop run by one worker with no other worker in between.
RECURSIVE MergeFrom(_, _, _)
MergeFrom(store, ids, from) ==
    LET lvl == NextLevel(ids, from)
    IN IF lvl > Len(RegistryLevels) THEN store
       ELSE LET obj == RegistryLevels[lvl]
            IN MergeFrom([store EXCEPT ![obj] = MergeLevel(store[obj], ids[obj])],
                         ids, lvl + 1)

MergeRegistry(store, ids) == MergeFrom(store, ids, 1)

-----------------------------------------------------------------------------
(* The failure flags and the checkpoint.                                   *)

\* The Manager().list is only appended to and searched with "in": it is kept
\* as the number of times each value was appended.
NoFlags == [v \in {PyBool(TRUE), PyBool(FALSE)} |-> 0]

ListAppend(lst, v) == [lst EXCEPT ![v] = @ + 1]

ListContains(lst, v) == \E x \in DOMAIN lst : lst[x] > 0 /\ x = v

ListLen(lst) == lst[PyBool(TRUE)] + lst[PyBool(FALSE)]

AnyFailureBool(flags) == ListContains(flags, PyBool(TRUE))

\* Line 684.
AnyFailure(flags) == ListContains(flags, PyStr("True"))

CommitBoundarySwapped(flags, start_time, end_time) ==
    IF AnyFailure(flags) THEN end_time ELSE start_time

\* Lines 684-687: the boundary handed to set_checkpoint.
CommitBoundary(flags, start_time, end_time) ==
    IF AnyFailure(flags) THEN start_time ELSE end_time

\* Checkpoint.get_checkpoint: the last persisted boundary, or the configured
\* start when there is none, and the cycle's current time.
get_checkpoint(collection, time) ==
    [start_time |-> IF checkpoint[collection].present
                    THEN checkpoint[collection].time
                    ELSE data.start_time,
     end_time |-> time]

\* Checkpoint.set_checkpoint: persists the boundary for the collection.
set_checkpoint(collection, time) ==
    [checkpoint EXCEPT ![collection] = [present |-> TRUE, time |-> time]]

\* os.cpu_count()
cpu_count == MaxWorkers

\* Lines 639-641.
WorkerProcess ==
    IF data.worker_process <= 0 THEN cpu_count ELSE data.worker_process

\* Lines 642-647.
Window(collection) ==
    IF indexing_type = "incremental"
    THEN get_checkpoint(collection, current_time)
    ELSE [start_time |-> data.start_time, end_time |-> current_time]

Collections == data.site_collections

-----------------------------------------------------------------------------
(* start(): the coordinator.                                               *)

\* Whether the cycle calls remove_all_permissions, lines 612-626.
PurgeCalled == file.exists /\ indexing_type = "full_sync"

\* Lines 609-619: ids_collection["global_keys"] once IDS_PATH has been read; a
\* file that does not parse leaves the default of line 609.
LoadedKeys == IF file.exists /\ file.readable THEN file.global_keys ELSE EmptyDict

\* Lines 608-628: the cycle begins.
LoadIds ==
    /\ pc = "cycle"
    /\ current_time' = now
    /\ ids_collection' = LoadedKeys
    /\ sink' = [purges |-> IF PurgeCalled THEN 1 ELSE 0, launched |-> 0]
    /\ storage_with_collection' =
          [global_keys |-> EmptyDict, delete_keys |-> LoadedKeys]
    /\ coll' = 1
    /\ pc' = "collection"
    /\ UNCHANGED <<data, universe, indexing_type, now, file, window, storage,
                   is_error_shared, jobs, checkpoint, probe>>

\* Lines 631-675: the shared storage, the window, its partitions and one
\* process per partition, each handed the collection's entry of ids_collection.
SetupCollection ==
    /\ pc = "collection"
    /\ coll <= Len(Collections)
    /\ LET collection == Collections[coll]
           w == Window(collection)
           seeded == IF collection \in DOMAIN ids_collection
                     THEN ids_collection
                     ELSE DictUpdate(ids_collection,
                                     [c \in {collection} |-> EmptyRegistry])
           windows == JobWindows(w.start_time, w.end_time, WorkerProcess)
       IN /\ storage' = EmptyRegistry
          /\ window' = w
          /\ ids_collection' = seeded
          /\ jobs' = [num \in 1..WorkerProcess |->
                        [pc |-> "created",
                         start_time |-> windows[num].start_time,
                         end_time |-> windows[num].end_time,
                         ids |-> seeded[collection],
                         is_error |-> FALSE,
                         raised |-> FALSE,
                         recorded |-> {},
                         crashed |-> FALSE,
                         fetch_failed |-> FALSE,
                         fetch_leaked |-> FALSE,
                         level |-> 1,
                         prev_ids |-> EmptyDict]]
    /\ pc' = "start_jobs"
    /\ UNCHANGED <<data, universe, indexing_type, now, current_time, file,
                   storage_with_collection, coll, is_error_shared, checkpoint,
                   sink, probe>>

Created == {num \in DOMAIN jobs : jobs[num].pc = "created"}

\* Lines 677-678: job.start() for the next job of the list.
StartJob ==
    /\ pc = "start_jobs"
    /\ Created # {}
    /\ LET num == CHOOSE n \in Created : \A m \in Created : n <= m
       IN /\ jobs' = [jobs EXCEPT ![num].pc = "started"]
          /\ pc' = IF Created = {num} THEN "join" ELSE "start_jobs"
    /\ sink' = [sink EXCEPT !.launched = @ + 1]
    /\ UNCHANGED <<data, universe, indexing_type, now, current_time, file,
                   ids_collection, storage_with_collection, coll, window,
                   storage, is_error_shared, checkpoint, probe>>

JoinedFirst == \E num \in DOMAIN jobs : jobs[num].pc = "done"

\* What the loop of job.join() waits for, lines 679-680.
Joined == \A num \in DOMAIN jobs : jobs[num].pc = "done"

JoinJobs ==
    /\ pc = "join"
    /\ Joined
    /\ pc' = "commit"
    /\ UNCHANGED <<data, universe, indexing_type, now, current_time, file,
                   ids_collection, storage_with_collection, coll, window,
                   storage, is_error_shared, jobs, checkpoint, sink, probe>>

NoWindow == [start_time |-> 0, end_time |-> 0]

\* Lines 682-687: the copy of the shared registry and the checkpoint.  The
\* processes, their manager dict and the window are not read again (lines 631,
\* 643-647 and 657 rebind them for the next collection): they are dropped.
Commit ==
    /\ pc = "commit"
    /\ LET collection == Collections[coll]
       IN /\ storage_with_collection' =
                [storage_with_collection EXCEPT !.global_keys =
                    DictUpdate(@, [c \in {collection} |-> storage])]
          /\ checkpoint' = set_checkpoint(collection,
                              CommitBoundary(is_error_shared,
                                             window.start_time, window.end_time))
    /\ coll' = coll + 1
    /\ pc' = "collection"
    /\ jobs' = <<>>
    /\ storage' = EmptyRegistry
    /\ window' = NoWindow
    /\ UNCHANGED <<data, universe, indexing_type, now, current_time, file,
                   ids_collection, is_error_shared, sink, probe>>

NoKeys == [global_keys |-> EmptyDict, delete_keys |-> EmptyDict]

\* What the start of the cycle would be dumping as delete_keys had line 628
\* kept a reference to ids_collection["global_keys"] instead of a deep copy.
DeleteKeysAliased == ids_collection

\* Line 628: the deep copy taken when the cycle began.
DeleteKeys == storage_with_collection.delete_keys

\* Lines 689-694: the registry is dumped to IDS_PATH.  Line 609 and 610 rebind
\* ids_collection and storage_with_collection before they are read again.
DumpIds ==
    /\ pc = "collection"
    /\ coll > Len(Collections)
    /\ file' = [exists |-> TRUE,
                readable |-> TRUE,
                global_keys |-> storage_with_collection.global_keys,
                delete_keys |-> DeleteKeys]
    /\ pc' = "sleep"
    /\ ids_collection' = EmptyDict
    /\ storage_with_collection' = NoKeys
    /\ UNCHANGED <<data, universe, indexing_type, now, current_time, coll, window,
                   storage, is_error_shared, jobs, checkpoint, sink, probe>>

\* start() without the loop of line 607: the process ends after its sleep.
SleepThenExit ==
    /\ pc = "sleep"
    /\ \E later \in (now + 1)..MaxTime : now' = later
    /\ pc' = "exit"
    /\ UNCHANGED <<data, universe, indexing_type, current_time, file,
                   ids_collection, storage_with_collection, coll, window,
                   storage, is_error_shared, jobs, checkpoint, sink, probe>>

\* Lines 695-701 and 607: time.sleep(interval * 60), then the next cycle.
Sleep ==
    /\ pc = "sleep"
    /\ \E later \in (now + 1)..MaxTime : now' = later
    /\ pc' = "cycle"
    /\ UNCHANGED <<data, universe, indexing_type, current_time, file,
                   ids_collection, storage_with_collection, coll, window,
                   storage, is_error_shared, jobs, checkpoint, sink, probe>>

\* Lines 594-606: the process is run again, with the other sync mode; the files
\* it left are still there, the Manager().list is a new one.
Restart ==
    /\ pc = "sleep"
    /\ \E mode \in {"incremental", "full_sync"} \ {indexing_type} :
          indexing_type' = mode
    /\ is_error_shared' = NoFlags
    /\ pc' = "sleep"
    /\ UNCHANGED <<data, universe, now, current_time, file, ids_collection,
                   storage_with_collection, coll, window, storage, jobs,
                   checkpoint, sink, probe>>

-----------------------------------------------------------------------------
(* FetchIndex.indexing: one partition worker.                              *)

\* Where the merge loop goes once it is at level lvl or later.
AtLevel(job, lvl) ==
    IF NextLevel(job.ids, lvl) > Len(RegistryLevels)
    THEN [job EXCEPT !.pc = "done"]
    ELSE [job EXCEPT !.pc = "merge_read", !.level = NextLevel(job.ids, lvl)]

\* Lines 521-565: the crawl, private to the process, and the append of its flag.
\* An exception that leaves indexing() ends the process: it appends no flag and
\* merges nothing.
Crawl(num) ==
    /\ jobs[num].pc = "started"
    /\ \E out \in IndexingLoop(data.objects, {NewCrawl(jobs[num].ids, jobs[num].start_time,
                                                      jobs[num].end_time)}) :
          IF out.crashed
          THEN /\ jobs' = [jobs EXCEPT ![num].pc = "done",
                                       ![num].crashed = TRUE,
                                       ![num].raised = out.raised,
                                       ![num].fetch_failed = out.fetch_failed,
                                       ![num].fetch_leaked = out.fetch_leaked]
               /\ UNCHANGED is_error_shared
          ELSE /\ jobs' = [jobs EXCEPT ![num] =
                             AtLevel([@ EXCEPT !.ids = out.ids,
                                               !.is_error = out.is_error,
                                               !.raised = out.raised,
                                               !.recorded = out.recorded,
                                               !.fetch_failed = out.fetch_failed,
                                               !.fetch_leaked = out.fetch_leaked], 1)]
               /\ is_error_shared' =
                     ListAppend(is_error_shared, PyBool(out.is_error))
    /\ UNCHANGED <<data, universe, indexing_type, now, pc, current_time, file,
                   ids_collection, storage_with_collection, coll, window,
                   storage, checkpoint, sink, probe>>

\* Line 569: prev_ids = storage[obj], a copy fetched from the manager.
MergeRead(num) ==
    /\ jobs[num].pc = "merge_read"
    /\ jobs' = [jobs EXCEPT ![num].prev_ids = storage[RegistryLevels[jobs[num].level]],
                            ![num].pc = "merge_write"]
    /\ UNCHANGED <<data, universe, indexing_type, now, pc, current_time, file,
                   ids_collection, storage_with_collection, coll, window,
                   storage, is_error_shared, checkpoint, sink, probe>>

\* Lines 570-571: the update of the copy and the store back.
MergeWrite(num) ==
    /\ jobs[num].pc = "merge_write"
    /\ LET obj == RegistryLevels[jobs[num].level]
       IN storage' = [storage EXCEPT ![obj] =
                         MergeLevel(jobs[num].prev_ids, jobs[num].ids[obj])]
    /\ jobs' = [jobs EXCEPT ![num] =
                  AtLevel([@ EXCEPT !.prev_ids = EmptyDict], jobs[num].level + 1)]
    /\ UNCHANGED <<data, universe, indexing_type, now, pc, current_time, file,
                   ids_collection, storage_with_collection, coll, window,
                   is_error_shared, checkpoint, sink, probe>>

\* One cycle of start(), up to its sleep.
Cycle ==
    \/ LoadIds
    \/ SetupCollection
    \/ StartJob
    \/ JoinJobs
    \/ Commit
    \/ DumpIds
    \/ \E num \in DOMAIN jobs : Crawl(num)
    \/ \E num \in DOMAIN jobs : MergeRead(num)
    \/ \E num \in DOMAIN jobs : MergeWrite(num)

Next ==
    \/ Cycle
    \/ Sleep
    \/ Restart

-----------------------------------------------------------------------------
(* Initial states.                                                         *)

NarrowUniverse ==
    [sites |-> {"/a"},
     lists |-> [s \in {"/a"} |-> {"L1"}],
     items |-> [l \in {<<"/a", "L1">>} |-> <<"g1">>],
     fixed |-> FALSE]

WideUniverse ==
    [sites |-> {"/a", "/b"},
     lists |-> [s \in {"/a", "/b"} |-> IF s = "/a" THEN {"L1", "L2"} ELSE {}],
     items |-> [l \in {<<"/a", "L1">>, <<"/a", "L2">>} |->
                    IF l[2] = "L1" THEN <<"g1">> ELSE <<>>],
     fixed |-> FALSE]

NoFile ==
    [exists |-> FALSE, readable |-> FALSE, global_keys |-> EmptyDict,
     delete_keys |-> EmptyDict]

\* What every run starts from: start() entered, nothing persisted yet.
InitCommon ==
    /\ pc = "cycle"
    /\ current_time = 0
    /\ file = NoFile
    /\ ids_collection = EmptyDict
    /\ storage_with_collection = NoKeys
    /\ coll = 1
    /\ window = NoWindow
    /\ storage = EmptyRegistry
    /\ is_error_shared = NoFlags
    /\ jobs = <<>>
    /\ checkpoint = [c \in {data.site_collections[i] : i \in DOMAIN data.site_collections} |->
                        [present |-> FALSE, time |-> 0]]
    /\ sink = [purges |-> 0, launched |-> 0]
    /\ probe = <<>>

Config(collections, objects, worker_process, enable_permission) ==
    [site_collections |-> collections,
     objects |-> objects,
     worker_process |-> worker_process,
     enable_permission |-> enable_permission,
     start_time |-> 0]

\* Several cycles in both modes: one collection with every worker count (0 is
\* worker_process left unset), or two collections with one worker each.
Init ==
    /\ data \in {Config(<<"c1">>, <<ITEMS>>, w, TRUE) : w \in 0..MaxWorkers}
                \cup {Config(<<"c1", "c2">>, <<ITEMS>>, 1, TRUE)}
    /\ universe = NarrowUniverse
    /\ indexing_type \in {"incremental", "full_sync"}
    /\ now = 1
    /\ InitCommon

Spec == Init /\ [][Next]_vars

\* The same runs when the coordinator and every started process keep running
\* (a worker that is started ends, join() returns once all have ended) and
\* time.sleep returns.
SpecFair == Spec /\ WF_vars(Cycle) /\ WF_vars(Sleep)

\* One collection, one worker, one cycle: every allow-list (any keys in any
\* order), with and without permission propagation.
AllowLists ==
    {<<>>} \cup {<<a>> : a \in {SITES, LISTS, ITEMS}}
           \cup {<<a, b>> : a \in {SITES, LISTS, ITEMS}, b \in {SITES, LISTS, ITEMS}}
           \cup {<<a, b, c>> : a \in {SITES, LISTS, ITEMS},
                               b \in {SITES, LISTS, ITEMS},
                               c \in {SITES, LISTS, ITEMS}}

Distinct(seq) == \A i, j \in DOMAIN seq : i # j => seq[i] # seq[j]

InitCrawl ==
    /\ data \in {Config(<<"c1">>, objects, 1, p) :
                    objects \in {o \in AllowLists : Distinct(o)}, p \in BOOLEAN}
    /\ universe = NarrowUniverse
    /\ indexing_type \in {"incremental", "full_sync"}
    /\ now = 1
    /\ InitCommon

SpecCrawl == InitCrawl /\ [][Cycle]_vars

\* The file an earlier cycle of the same configuration leaves behind.
SeededFile ==
    [exists |-> TRUE,
     readable |-> TRUE,
     global_keys |->
        [c \in {"c1"} |->
            [sites |-> [k \in {SiteId("/a")} |-> "/a"],
             lists |-> [s \in {"/a"} |-> [k \in {ListId("/a", "L1")} |-> "L1"]],
             list_items |-> EmptyDict]],
     delete_keys |-> EmptyDict]

\* One collection and one cycle of sites and lists, crawled by several workers,
\* on a first run or after an earlier cycle.
InitMerge ==
    /\ data \in {Config(<<"c1">>, <<SITES, LISTS>>, w, FALSE) : w \in 1..MaxWorkers}
    /\ universe = WideUniverse
    /\ indexing_type = "incremental"
    /\ now = 1
    /\ pc = "cycle"
    /\ current_time = 0
    /\ file \in {NoFile, SeededFile}
    /\ ids_collection = EmptyDict
    /\ storage_with_collection = NoKeys
    /\ coll = 1
    /\ window = NoWindow
    /\ storage = EmptyRegistry
    /\ is_error_shared = NoFlags
    /\ jobs = <<>>
    /\ checkpoint = [c \in {"c1"} |-> [present |-> file.exists, time |-> 0]]
    /\ sink = [purges |-> 0, launched |-> 0]
    /\ probe = <<>>

SpecMerge == InitMerge /\ [][Cycle]_vars

\* A source whose state does not change: each object with the time it was last
\* modified.
FixedUniverse ==
    [sites |-> {"/a", "/b"},
     lists |-> [s \in {"/a", "/b"} |-> IF s = "/a" THEN {"L1", "L2"} ELSE {}],
     items |-> [l \in {<<"/a", "L1">>, <<"/a", "L2">>} |-> <<>>],
     fixed |-> TRUE,
     modified |->
        [sites |-> [s \in {"/a", "/b"} |-> IF s = "/a" THEN 0 ELSE 1],
         lists |-> [l \in {<<"/a", "L1">>, <<"/a", "L2">>} |->
                        IF l[2] = "L1" THEN 0 ELSE 1],
         items |-> <<>>]]

\* The same full sync run twice at the same time over the same source: the
\* second run has the window of the first and finds the file the first left.
InitTwice ==
    /\ data \in {Config(<<"c1">>, <<SITES, LISTS>>, w, FALSE) : w \in 1..MaxWorkers}
    /\ universe = FixedUniverse
    /\ indexing_type = "full_sync"
    /\ now = 2
    /\ pc = "cycle"
    /\ current_time = 0
    /\ file = NoFile
    /\ ids_collection = EmptyDict
    /\ storage_with_collection = NoKeys
    /\ coll = 1
    /\ window = NoWindow
    /\ storage = EmptyRegistry
    /\ is_error_shared = NoFlags
    /\ jobs = <<>>
    /\ checkpoint = [c \in {"c1"} |-> [present |-> FALSE, time |-> 0]]
    /\ sink = [purges |-> 0, launched |-> 0]
    /\ probe = [runs |-> 1, first |-> EmptyDict]

\* Lines 695-701 and 607 with the clock held: the cycle is run again.
Again ==
    /\ pc = "sleep"
    /\ probe.runs = 1
    /\ probe' = [runs |-> 2, first |-> file.global_keys]
    /\ pc' = "cycle"
    /\ UNCHANGED <<data, universe, indexing_type, now, current_time, file,
                   ids_collection, storage_with_collection, coll, window,
                   storage, is_error_shared, jobs, checkpoint, sink>>

SpecTwice == InitTwice /\ [][Cycle \/ Again]_vars

\* A file at IDS_PATH that json.load cannot parse: what it held is lost.
CorruptFile == [SeededFile EXCEPT !.readable = FALSE]

\* Several cycles of one collection crawled by one worker, starting with no
\* file, with a file that does not parse or with the file of an earlier cycle.
InitKeys ==
    /\ data = Config(<<"c1">>, <<SITES, LISTS>>, 1, FALSE)
    /\ universe = WideUniverse
    /\ indexing_type \in {"incremental", "full_sync"}
    /\ now = 1
    /\ pc = "cycle"
    /\ current_time = 0
    /\ file \in {NoFile, CorruptFile, SeededFile}
    /\ ids_collection = EmptyDict
    /\ storage_with_collection = NoKeys
    /\ coll = 1
    /\ window = NoWindow
    /\ storage = EmptyRegistry
    /\ is_error_shared = NoFlags
    /\ jobs = <<>>
    /\ checkpoint = [c \in {"c1"} |-> [present |-> file.exists, time |-> 0]]
    /\ sink = [purges |-> 0, launched |-> 0]
    /\ probe = <<>>

SpecKeys == InitKeys /\ [][Cycle \/ Sleep]_vars

-----------------------------------------------------------------------------
(* Runs of one function alone.                                             *)

\* Lines 649-671 of start() on a window and a worker count.
InitPart ==
    /\ data = Config(<<"c1">>, <<>>, 1, FALSE)
    /\ universe = NarrowUniverse
    /\ indexing_type = "incremental"
    /\ now = 0
    /\ pc = "partition"
    /\ current_time = 0
    /\ file = NoFile
    /\ ids_collection = EmptyDict
    /\ storage_with_collection = NoKeys
    /\ coll = 1
    /\ window = NoWindow
    /\ storage = EmptyRegistry
    /\ is_error_shared = NoFlags
    /\ jobs = <<>>
    /\ checkpoint = [c \in {"c1"} |-> [present |-> FALSE, time |-> 0]]
    /\ sink = [purges |-> 0, launched |-> 0]
    /\ probe \in {[start_time |-> s, end_time |-> s + d, processes |-> w,
                    done |-> FALSE, datelist |-> <<>>, windows |-> <<>>] :
                        s \in 0..MaxTime, d \in 0..MaxSpan, w \in 1..MaxProcesses}

Partition ==
    /\ pc = "partition"
    /\ ~probe.done
    /\ probe' = [probe EXCEPT
                    !.done = TRUE,
                    !.datelist = DateList(probe.start_time, probe.end_time,
                                          probe.processes),
                    !.windows = JobWindows(probe.start_time, probe.end_time,
                                           probe.processes)]
    /\ UNCHANGED <<data, universe, indexing_type, now, pc, current_time, file,
                   ids_collection, storage_with_collection, coll, window,
                   storage, is_error_shared, jobs, checkpoint, sink>>

SpecPart == InitPart /\ [][Partition]_vars

\* The registries one crawl of sites, lists and items can hand to the merge.
Deltas ==
    {o.ids : o \in {x \in IndexingLoop(<<SITES, LISTS, ITEMS>>,
                                         {NewCrawl(EmptyRegistry, 0, 0)}) : ~x.crashed}}

\* Lines 567-571 run by two workers one after the other on a new storage.
InitMergeFn ==
    /\ data = Config(<<"c1">>, <<SITES, LISTS, ITEMS>>, 2, FALSE)
    /\ universe = WideUniverse
    /\ indexing_type = "incremental"
    /\ now = 0
    /\ pc = "merge"
    /\ current_time = 0
    /\ file = NoFile
    /\ ids_collection = EmptyDict
    /\ storage_with_collection = NoKeys
    /\ coll = 1
    /\ window = NoWindow
    /\ storage = EmptyRegistry
    /\ is_error_shared = NoFlags
    /\ jobs = <<>>
    /\ checkpoint = [c \in {"c1"} |-> [present |-> FALSE, time |-> 0]]
    /\ sink = [purges |-> 0, launched |-> 0]
    /\ probe \in {[deltas |-> <<d1, d2>>, merged |-> 0, before |-> EmptyRegistry] :
                    d1 \in Deltas, d2 \in Deltas}

MergeDelta ==
    /\ pc = "merge"
    /\ probe.merged < Len(probe.deltas)
    /\ storage' = MergeRegistry(storage, probe.deltas[probe.merged + 1])
    /\ probe' = [probe EXCEPT !.merged = @ + 1, !.before = storage]
    /\ UNCHANGED <<data, universe, indexing_type, now, pc, current_time, file,
                   ids_collection, storage_with_collection, coll, window,
                   is_error_shared, jobs, checkpoint, sink>>

SpecMergeFn == InitMergeFn /\ [][MergeDelta]_vars


\* What a run of one function alone leaves untouched.
InitAlone(at) ==
    /\ data = Config(<<"c1">>, <<>>, 1, FALSE)
    /\ universe = NarrowUniverse
    /\ indexing_type = "incremental"
    /\ now = 0
    /\ pc = at
    /\ current_time = 0
    /\ file = NoFile
    /\ ids_collection = EmptyDict
    /\ storage_with_collection = NoKeys
    /\ coll = 1
    /\ window = NoWindow
    /\ storage = EmptyRegistry
    /\ is_error_shared = NoFlags
    /\ jobs = <<>>
    /\ checkpoint = [c \in {"c1"} |-> [present |-> FALSE, time |-> 0]]
    /\ sink = [purges |-> 0, launched |-> 0]

\* index_document on n staged documents, the sink raising on some chunks.
InitDoc ==
    /\ InitAlone("index_document")
    /\ probe \in {[n |-> n, raising |-> r, done |-> FALSE,
                   submitted |-> {}, is_error |-> FALSE] :
                    n \in 0..MaxDocs, r \in SUBSET (1..ChunkCount(MaxDocs))}

Submit ==
    /\ pc = "index_document"
    /\ ~probe.done
    /\ LET out == index_document(probe.n, probe.raising)
       IN probe' = [probe EXCEPT !.done = TRUE,
                                 !.submitted = out.submitted,
                                 !.is_error = out.is_error]
    /\ UNCHANGED <<data, universe, indexing_type, now, pc, current_time, file,
                   ids_collection, storage_with_collection, coll, window,
                   storage, is_error_shared, jobs, checkpoint, sink>>

SpecDoc == InitDoc /\ [][Submit]_vars

\* The role assignments fetch_users can hand back: a principal with no Users
\* key, with an empty member list, or with up to MaxUsers members.
Members == {[present |-> FALSE, results |-> <<>>]} \cup
           {[present |-> TRUE, results |-> [i \in 1..k |-> <<"u1", "u2", "u3">>[i]]] :
                k \in 0..MaxUsers}

Roles == [Title : {"Owners", "u1"}, Users : Members]

RoleLists == UNION {[1..k -> Roles] : k \in 0..MaxRoles}

\* index_permissions on one roles response, with or without a mapping sheet, the
\* sink raising on some pushes.
InitPerm ==
    /\ InitAlone("index_permissions")
    /\ probe \in {[roles |-> rs, response |-> [r EXCEPT !.results = rs],
                   rows |-> rows, raising |-> x,
                   done |-> FALSE, uncaught |-> FALSE, groups |-> <<>>,
                   grants |-> <<>>, is_error |-> FALSE] :
                    rs \in RoleLists, r \in Responses(<<>>),
                    rows \in {<<>>, [t \in {"u1"} |-> "mapped"]},
                    x \in SUBSET (1..MaxUsers)}

Permit ==
    /\ pc = "index_permissions"
    /\ ~probe.done
    /\ LET out == index_permissions(probe.response, probe.rows, probe.raising)
       IN probe' = [probe EXCEPT !.done = TRUE,
                                 !.uncaught = out.uncaught,
                                 !.groups = out.groups,
                                 !.grants = out.grants,
                                 !.is_error = out.is_error]
    /\ UNCHANGED <<data, universe, indexing_type, now, pc, current_time, file,
                   ids_collection, storage_with_collection, coll, window,
                   storage, is_error_shared, jobs, checkpoint, sink>>

SpecPerm == InitPerm /\ [][Permit]_vars

\* The source attributes a configuration can name.
Attributes == {"Title", "Created", "Id", "GUID"}

\* get_schema_fields on one document type under one configuration; alone is
\* what it gives for the same configuration without its exclude_fields.
InitSchema ==
    /\ InitAlone("get_schema_fields")
    /\ probe \in {[document_name |-> d,
                   adapter_schema |-> DEFAULT_SCHEMA(d, w),
                   fields |-> [present |-> p, include_fields |-> i,
                               exclude_fields |-> e],
                   done |-> FALSE, schema |-> <<>>, alone |-> <<>>] :
                    d \in {SITES, LISTS, ITEMS}, w \in BOOLEAN, p \in BOOLEAN,
                    i \in SUBSET Attributes, e \in SUBSET Attributes}

Project ==
    /\ pc = "get_schema_fields"
    /\ ~probe.done
    /\ probe' = [probe EXCEPT
                    !.done = TRUE,
                    !.schema = get_schema_fields(probe.document_name,
                                                 probe.adapter_schema, probe.fields),
                    !.alone = get_schema_fields(
                                  probe.document_name, probe.adapter_schema,
                                  [probe.fields EXCEPT !.exclude_fields = {}])]
    /\ UNCHANGED <<data, universe, indexing_type, now, pc, current_time, file,
                   ids_collection, storage_with_collection, coll, window,
                   storage, is_error_shared, jobs, checkpoint, sink>>

SpecSchema == InitSchema /\ [][Project]_vars

\* The items of one list as the source holds them, in its order: whether the
\* item carries an attachment and whether the window's filter selects it.
ListContents ==
    UNION {[1..k -> [Attachments : BOOLEAN, selected : BOOLEAN]] : k \in 1..MaxItems}

\* Lines 330-343: the items query carries the window's filter.
SelectedItems(all) ==
    LET at == SelectSeq([i \in DOMAIN all |-> i], LAMBDA i : all[i].selected)
    IN [n \in DOMAIN at |->
            [GUID |-> <<"GUID", at[n]>>, Attachments |-> all[at[n]].Attachments]]

\* Lines 361-364: the attachment query carries no filter (query='?') and lists
\* every item of the list with its attachment files.
AttachmentList(all) ==
    [i \in DOMAIN all |->
        [AttachmentFiles |-> IF all[i].Attachments THEN <<"file">> ELSE <<>>]]

\* The item loop of index_items on one list: the attachment query and every
\* download answer one way or another, and extraction succeeds or raises.
InitItems ==
    /\ InitAlone("index_items")
    /\ probe \in {[all |-> a, file_response |-> [r EXCEPT !.results = AttachmentList(a)],
                   downloads |-> d, extractions |-> e, done |-> FALSE,
                   uncaught |-> FALSE, document |-> <<>>, submitted |-> {},
                   is_error |-> FALSE] :
                    a \in ListContents, r \in Responses(<<>>),
                    d \in [1..MaxItems -> {"ok", "status"}],
                    e \in [1..MaxItems -> {"ok", "TikaException"}]}

Items ==
    /\ pc = "index_items"
    /\ ~probe.done
    /\ LET response_data == SelectedItems(probe.all)
           out == ListItems(response_data, probe.file_response, probe.downloads,
                            probe.extractions, <<>>, FALSE, {})
       IN probe' = IF response_data = <<>>
                   THEN [probe EXCEPT !.done = TRUE]
                   ELSE [probe EXCEPT !.done = TRUE,
                                      !.uncaught = out.uncaught,
                                      !.document = out.document,
                                      !.submitted = out.submitted,
                                      !.is_error = out.is_error]
    /\ UNCHANGED <<data, universe, indexing_type, now, pc, current_time, file,
                   ids_collection, storage_with_collection, coll, window,
                   storage, is_error_shared, jobs, checkpoint, sink>>

SpecItems == InitItems /\ [][Items]_vars

\* indexing() alone, lines 521-554, in one process over the window [0, 1) with
\* an empty registry: every allow-list in every order, with and without
\* permission propagation, on a source with sibling sites and sibling lists.
InitIndexing ==
    /\ data \in {Config(<<"c1">>, objects, 1, p) :
                    objects \in {o \in AllowLists : Distinct(o)}, p \in BOOLEAN}
    /\ universe = WideUniverse
    /\ indexing_type = "incremental"
    /\ now = 1
    /\ pc = "indexing"
    /\ current_time = 1
    /\ file = NoFile
    /\ ids_collection = EmptyDict
    /\ storage_with_collection = NoKeys
    /\ coll = 1
    /\ window = NoWindow
    /\ storage = EmptyRegistry
    /\ is_error_shared = NoFlags
    /\ jobs = <<>>
    /\ checkpoint = [c \in {"c1"} |-> [present |-> FALSE, time |-> 0]]
    /\ sink = [purges |-> 0, launched |-> 0]
    /\ probe = [done |-> FALSE, out |-> NewCrawl(EmptyRegistry, 0, 1)]

Indexing ==
    /\ pc = "indexing"
    /\ ~probe.done
    /\ \E out \in IndexingLoop(data.objects, {NewCrawl(EmptyRegistry, 0, 1)}) :
          probe' = [done |-> TRUE, out |-> out]
    /\ UNCHANGED <<data, universe, indexing_type, now, pc, current_time, file,
                   ids_collection, storage_with_collection, coll, window,
                   storage, is_error_shared, jobs, checkpoint, sink>>

SpecIndexing == InitIndexing /\ [][Indexing]_vars

\* An incremental cycle that begins in the second in which the checkpoint of
\* the collection was written (a sleep of no minute, or a cycle shorter than the
\* resolution of current_time): the window has start == end.
InitSameSecond ==
    /\ data \in {Config(<<"c1">>, <<SITES, LISTS>>, w, FALSE) : w \in 0..MaxWorkers}
    /\ universe = NarrowUniverse
    /\ indexing_type = "incremental"
    /\ now = 1
    /\ pc = "cycle"
    /\ current_time = 0
    /\ file = SeededFile
    /\ ids_collection = EmptyDict
    /\ storage_with_collection = NoKeys
    /\ coll = 1
    /\ window = NoWindow
    /\ storage = EmptyRegistry
    /\ is_error_shared = NoFlags
    /\ jobs = <<>>
    /\ checkpoint = [c \in {"c1"} |-> [present |-> TRUE, time |-> now]]
    /\ sink = [purges |-> 0, launched |-> 0]
    /\ probe = <<>>

SpecSameSecond == InitSameSecond /\ [][Cycle]_vars

\* The lists stage of one partition on up to MaxSites sites, each answering the
\* lists query with up to MaxLists lists.
InitLists ==
    /\ InitAlone("index_lists")
    /\ probe \in {[sites |-> [i \in 1..n |-> i], response |-> r, index |-> x,
                   done |-> FALSE, batches |-> <<>>] :
                    n \in 0..MaxSites, r \in [1..MaxSites -> 0..MaxLists],
                    x \in BOOLEAN}
    /\ \A i \in 1..MaxSites : i > Len(probe.sites) => probe.response[i] = 0

Lists ==
    /\ pc = "index_lists"
    /\ ~probe.done
    /\ probe' = [probe EXCEPT
                    !.done = TRUE,
                    !.batches = ListBatches(probe.sites, probe.response, <<>>,
                                            probe.index)]
    /\ UNCHANGED <<data, universe, indexing_type, now, pc, current_time, file,
                   ids_collection, storage_with_collection, coll, window,
                   storage, is_error_shared, jobs, checkpoint, sink>>

SpecLists == InitLists /\ [][Lists]_vars

-----------------------------------------------------------------------------
(* Properties.                                                             *)

\* The identifiers a registry holds, each with its level and parent path.
RegistryIds(reg) ==
    {<<"sites", k>> : k \in DOMAIN reg.sites}
    \cup UNION {{<<"lists", s, k>> : k \in DOMAIN reg.lists[s]} : s \in DOMAIN reg.lists}
    \cup UNION {UNION {{<<"list_items", s, t, g>> : g \in Range(reg.list_items[s][t])} :
                       t \in DOMAIN reg.list_items[s]} :
                s \in DOMAIN reg.list_items}

\* A step of Commit: the coordinator leaves line 687 for the next collection.
CommitStep == pc = "commit" /\ pc' = "collection"

\* The flags the workers of the collection at hand have appended.
SomeWorkerFailed == \E num \in DOMAIN jobs : jobs[num].is_error
NoWorkerFailed == \A num \in DOMAIN jobs : ~jobs[num].is_error

\* C1: when at least one partition worker of the collection reported a true
\* failure flag, the checkpoint written after the join is the window's start.
C1_FailureKeepsWindowStart ==
    [][CommitStep /\ SomeWorkerFailed
         => checkpoint'[Collections[coll]] =
                [present |-> TRUE, time |-> window.start_time]]_vars

\* C2: when every partition worker of the collection reported a false failure
\* flag, the checkpoint written after the join is the window's end, which is
\* the cycle's current_time, in incremental and in full_sync mode.
C2_SuccessAdvancesToWindowEnd ==
    [][CommitStep /\ NoWorkerFailed
         => /\ checkpoint'[Collections[coll]] =
                  [present |-> TRUE, time |-> window.end_time]
            /\ window.end_time = current_time]_vars

\* C2 witness: two workers have reported false, the first collection is
\* committed and its checkpoint is the current time of the cycle.
C2_Witness ==
    /\ pc = "collection"
    /\ coll = 2
    /\ is_error_shared[PyBool(TRUE)] = 0
    /\ is_error_shared[PyBool(FALSE)] = 2
    /\ current_time > data.start_time
    /\ checkpoint["c1"] = [present |-> TRUE, time |-> current_time]

\* C3: when a batch submission or a permission grant raised during a
\* partition's crawl, the failure flag the partition appends is true.
C3_SinkErrorSetsFlag ==
    \A num \in DOMAIN jobs :
        /\ jobs[num].pc \notin {"created", "started"}
        /\ ~jobs[num].crashed
        /\ jobs[num].raised
        => jobs[num].is_error

\* C4: after the join the shared registry holds every identifier a partition
\* recorded in this cycle, whatever the interleaving of the merge steps (stated
\* for the sites level, where one worker's merge alone loses nothing).
C4_NoContributionLost ==
    pc = "commit"
        => \A num \in DOMAIN jobs : \A r \in jobs[num].recorded :
              r[1] = "sites" /\ ~jobs[num].crashed => r \in RegistryIds(storage)

\* C5: a merge into the shared registry is a union per level and parent path:
\* a worker that stores back what it read and updated removes no identifier the
\* registry held.
C5_MergeIsUnion ==
    [][\A num \in DOMAIN jobs :
          /\ jobs[num].pc = "merge_write"
          /\ jobs[num].prev_ids = storage[RegistryLevels[jobs[num].level]]
          /\ storage' # storage
          => RegistryIds(storage) \subseteq RegistryIds(storage')]_vars

\* C6: merging two disjoint deltas yields a registry whose size is the sum of
\* their sizes, and merging an empty delta changes nothing.
C6_DisjointMergeAddsSizes ==
    /\ probe.merged = 2
         /\ RegistryIds(probe.deltas[1]) \cap RegistryIds(probe.deltas[2]) = {}
         => Cardinality(RegistryIds(storage)) =
                Cardinality(RegistryIds(probe.deltas[1]))
                + Cardinality(RegistryIds(probe.deltas[2]))
    /\ probe.merged >= 1 /\ probe.deltas[probe.merged] = EmptyRegistry
         => storage = probe.before

\* C7: the W workers of a collection are all started, whatever flags have been
\* reported meanwhile, and all have terminated when the coordinator goes on to
\* copy the registry, read the flags and write the checkpoint.
C7_JoinBarrier ==
    /\ pc \in {"join", "commit"}
         => /\ Len(jobs) = WorkerProcess
            /\ \A num \in DOMAIN jobs : jobs[num].pc # "created"
    /\ pc = "commit" => \A num \in DOMAIN jobs : jobs[num].pc = "done"
    /\ pc \notin {"start_jobs", "join", "commit"} => jobs = <<>>

\* C7 witness: the coordinator is past the join of several workers, one of
\* which reported a failure.
C7_Witness ==
    /\ pc = "commit"
    /\ Len(jobs) >= 2
    /\ jobs[1].is_error
    /\ ~jobs[2].is_error

\* C8: in full_sync mode a cycle makes exactly one remove-all-permissions call,
\* before any worker is launched; in incremental mode it makes none.
C8_FullSyncPurgesOnce ==
    pc \notin {"cycle", "sleep"}
        => /\ indexing_type = "full_sync" /\ sink.launched > 0 => sink.purges = 1
           /\ indexing_type = "incremental" => sink.purges = 0

Gap(datelist, i) == datelist[i + 1] - datelist[i]

\* What C9 says apart from the spacing: W+1 boundaries, non-decreasing, from
\* start to end, and one job per pair of consecutive boundaries.
PartitionShape ==
    /\ Len(probe.datelist) = probe.processes + 1
    /\ \A i \in 1..probe.processes : probe.datelist[i] <= probe.datelist[i + 1]
    /\ probe.datelist[1] = probe.start_time
    /\ probe.datelist[probe.processes + 1] = probe.end_time
    /\ Len(probe.windows) = probe.processes
    /\ \A num \in 1..probe.processes :
          probe.windows[num] = [start_time |-> probe.datelist[num],
                                end_time |-> probe.datelist[num + 1]]
    /\ \A num \in 1..(probe.processes - 1) :
          probe.windows[num].end_time = probe.windows[num + 1].start_time

C10_CheckpointNeverMovesBack ==
    [][\A c \in DOMAIN checkpoint :
          checkpoint[c].present
              => /\ checkpoint'[c].present
                 /\ checkpoint'[c].time >= checkpoint[c].time]_vars

\* C10 witness: a full_sync cycle later than the first has written the
\* checkpoint again after a worker flagged a failure.
C10_Witness ==
    /\ pc = "collection"
    /\ coll = 2
    /\ indexing_type = "full_sync"
    /\ is_error_shared[PyBool(TRUE)] > 0
    /\ current_time > 1
    /\ checkpoint["c1"] = [present |-> TRUE, time |-> current_time]

\* C11: no exception leaves indexing(): whatever the source, the permission
\* fetches, the attachment fetches and the sink answer, every partition ends
\* normally and appends one flag, so that after the join there are as many flags
\* as partitions.
C11_EveryPartitionAppendsOneFlag ==
    /\ \A num \in DOMAIN jobs : ~jobs[num].crashed
    /\ pc = "commit" => ListLen(is_error_shared) = Len(jobs)

\* C12: when the submission of one batch raises, the failure flag is set and
\* every remaining batch of the staged documents is still handed to the sink.
C12_RaisingBatchDoesNotStopTheRest ==
    probe.done /\ probe.raising \cap (1..ChunkCount(probe.n)) # {}
        => /\ probe.is_error
           /\ probe.submitted = 1..ChunkCount(probe.n)

\* C13: a cycle run twice over the same source state and the same window
\* leaves the same global_keys after the second run as after the first, for
\* every worker count and every order in which the workers complete.
C13_SecondRunSameRegistry ==
    pc = "sleep" /\ probe.runs = 2 => file.global_keys = probe.first

\* C14: the delete_keys a cycle persists are the global_keys the previous cycle
\* persisted (empty when there is no file that can be read), as they were when
\* the cycle began: no step of the coordinator or of a worker changes the
\* snapshot in between.
C14_DeleteKeysArePreviousGlobalKeys ==
    [][/\ pc = "collection" /\ pc' = "sleep"
          => file'.delete_keys =
                IF file.exists /\ file.readable THEN file.global_keys ELSE EmptyDict
       /\ pc \notin {"cycle", "sleep"} /\ pc' \notin {"cycle", "sleep"}
          => storage_with_collection'.delete_keys =
                storage_with_collection.delete_keys]_vars

\* C14 witness: a cycle has replaced a registry it found by a different one and
\* persisted the one it found as delete_keys.
C14_Witness ==
    /\ pc = "sleep"
    /\ file.delete_keys # EmptyDict
    /\ file.delete_keys # file.global_keys
    /\ now > 1

\* The grants C15 counts for a list of role assignments: one per member, one
\* for a principal with no member to enumerate.
RECURSIVE ExpectedGrants(_)
ExpectedGrants(roles) ==
    IF roles = <<>> THEN 0
    ELSE (IF Head(roles).Users.present /\ Len(Head(roles).Users.results) > 0
          THEN Len(Head(roles).Users.results) ELSE 1)
         + ExpectedGrants(Tail(roles))

\* C15: index_permissions pushes K grants for a principal with K members and
\* exactly one for a principal without enumerable members, whether Users is
\* absent or present with an empty member list.
C15_OneGrantPerMemberElseOne ==
    probe.done /\ probe.response.ok /\ probe.response.json = "results"
        => Len(probe.grants) = ExpectedGrants(probe.roles)

\* C16 as stated: with an include-list every source attribute of the output is
\* in the include-list; with an exclude-list only, none is in the exclude-list,
\* the injected id attribute included; with both, the output is that of the
\* include-list alone.
C16_OutputWithinLists ==
    probe.done /\ probe.fields.present =>
        /\ probe.fields.include_fields # {}
            => \A k \in DOMAIN probe.schema :
                    probe.schema[k] \in probe.fields.include_fields
        /\ probe.fields.include_fields = {} /\ probe.fields.exclude_fields # {}
            => \A k \in DOMAIN probe.schema :
                    probe.schema[k] \notin probe.fields.exclude_fields
        /\ probe.fields.include_fields # {} /\ probe.fields.exclude_fields # {}
            => probe.schema = probe.alone

\* C16 amended: the same for every entry of the output but the id entry, which
\* is always there with the attribute of the document type (GUID for items, Id
\* for sites and lists), whatever the lists say.
C16_OutputWithinListsButId ==
    probe.done /\ probe.fields.present =>
        /\ "id" \in DOMAIN probe.schema
        /\ probe.schema["id"] =
                IF probe.document_name = ITEMS THEN "GUID" ELSE "Id"
        /\ probe.fields.include_fields # {}
            => \A k \in DOMAIN probe.schema \ {"id"} :
                    probe.schema[k] \in probe.fields.include_fields
        /\ probe.fields.include_fields = {} /\ probe.fields.exclude_fields # {}
            => \A k \in DOMAIN probe.schema \ {"id"} :
                    probe.schema[k] \notin probe.fields.exclude_fields
        /\ probe.fields.include_fields # {} /\ probe.fields.exclude_fields # {}
            => probe.schema = probe.alone

\* C16 witness: both lists are configured, and an attribute that is in both is
\* in the output, next to an id attribute that the include-list does not name.
C16_Witness ==
    /\ probe.done
    /\ probe.fields.present
    /\ \E k \in DOMAIN probe.schema \ {"id"} :
            /\ probe.schema[k] \in probe.fields.include_fields
            /\ probe.schema[k] \in probe.fields.exclude_fields
    /\ probe.schema["id"] \notin probe.fields.include_fields

\* C17: when an item flagged Attachments=true meets an attachment fetch that
\* does not succeed or an extraction that fails, no item of the list is dropped:
\* every selected item has its document staged and submitted, and the document
\* of such an item has an absent or empty body.
C17_AttachmentNeverDropsItem ==
    LET response_data == SelectedItems(probe.all)
        troubled == {num \in DOMAIN response_data :
                        /\ response_data[num].Attachments
                        /\ \/ ~probe.file_response.ok
                           \/ probe.downloads[num] = "status"
                           \/ probe.extractions[num] = "TikaException"}
    IN probe.done /\ troubled # {} =>
        /\ ~probe.uncaught
        /\ [num \in DOMAIN probe.document |-> probe.document[num].GUID]
                = [num \in DOMAIN response_data |-> response_data[num].GUID]
        /\ probe.submitted = 1..ChunkCount(Len(response_data))
        /\ \A num \in troubled : probe.document[num].body \in {"absent", "empty"}

C19_CycleFollowedByCycle ==
    \A t \in 1..(MaxTime - 1) :
        /\ (pc = "collection" /\ current_time = t)
                ~> (pc = "sleep" /\ file.exists /\ file.readable /\ current_time = t)
        /\ (pc = "collection" /\ current_time = t)
                ~> (pc = "collection" /\ current_time > t)

\* C19 witness: a cycle has begun after one in which a worker flagged a failure.
C19_Witness ==
    /\ pc = "collection"
    /\ current_time > 1
    /\ file.exists
    /\ is_error_shared[PyBool(TRUE)] > 0

\* The flags the workers of the collection at hand have appended, counted.
FlagsOfCollection(b) ==
    Cardinality({num \in DOMAIN jobs : ~jobs[num].crashed /\ jobs[num].is_error = b})

\* C20: the commit of a collection is decided on the flags of that collection's
\* workers in that cycle alone: the flag list read at the commit holds no flag
\* of another collection or of an earlier cycle, and when none of the
\* collection's workers flagged a failure the checkpoint advances.
C20_CommitReadsOwnFlagsOnly ==
    [][CommitStep
         => /\ \A b \in BOOLEAN : is_error_shared[PyBool(b)] = FlagsOfCollection(b)
            /\ NoWorkerFailed
                => checkpoint'[Collections[coll]] =
                      [present |-> TRUE, time |-> window.end_time]]_vars

\* C21: every partition worker begins its crawl with an empty working registry,
\* and once it has crawled, the identifiers of the registry it merges are those
\* it recorded in its own window in this cycle.
C21_WorkerRegistryStartsEmpty ==
    \A num \in DOMAIN jobs :
        /\ jobs[num].pc \in {"created", "started"} => jobs[num].ids = EmptyRegistry
        /\ jobs[num].pc \notin {"created", "started"} /\ ~jobs[num].crashed
            => RegistryIds(jobs[num].ids) \subseteq jobs[num].recorded

\* The keys of the allow-list, as a set.
Configured == {data.objects[i] : i \in DOMAIN data.objects}

\* C22 (a): the items of a list are queried only under a site whose lists query
\* of this run returned something.
C22_NoQueryUnderEmptyBranch ==
    \A q \in probe.out.queried :
        q[1] = ITEMS => <<LISTS, q[2]>> \notin probe.out.empty

\* C22 (b): a site whose lists query returned something has lists staged, and a
\* list whose items query returned something has items staged, whatever the
\* queries of the other sites and lists returned.
C22_SiblingsStillCrawled ==
    \A q \in probe.out.queried \ probe.out.empty :
        /\ q[1] = LISTS
            => \E r \in probe.out.recorded : r[1] = "lists" /\ r[2] = q[2]
        /\ q[1] = ITEMS
            => \E r \in probe.out.recorded :
                  r[1] = "list_items" /\ r[2] = q[2] /\ r[3] = q[3]

\* C22 (c): every configured stage has run, whatever the sink answered in the
\* stages before it.
C22_NoStageSkipped == \A key \in Configured : key \in Range(probe.out.ran)

\* C22: failures are local to a branch of a partition's crawl: nothing is
\* queried under a site whose lists query failed or returned nothing (or under
\* such a list), every other site and list found is still crawled, and a sink
\* error in an earlier stage does not make the crawl skip a later configured
\* stage.
C22_FailuresAreBranchLocal ==
    probe.done /\ ~probe.out.crashed
        => /\ C22_NoQueryUnderEmptyBranch
           /\ C22_SiblingsStillCrawled
           /\ C22_NoStageSkipped

\* The depth of an object type in the hierarchy.
Depth(key) == IF key = SITES THEN 1 ELSE IF key = LISTS THEN 2 ELSE 3

\* C23: in a partition run, for every order of the allow-list, the stages run
\* top-down (sites before lists, lists before items), every lists query is made
\* under a site path that a sites query of the run returned, and every items
\* query under a (site path, list title) pair that a lists query of the run
\* returned.
C23_TraversalIsTopDown ==
    probe.done /\ ~probe.out.crashed
        => /\ \A i, j \in DOMAIN probe.out.ran :
                i < j => Depth(probe.out.ran[i]) < Depth(probe.out.ran[j])
           /\ \A q \in probe.out.queried :
                /\ q[1] = LISTS => <<SITES, q[2]>> \in probe.out.found
                /\ q[1] = ITEMS => <<LISTS, q[2], q[3]>> \in probe.out.found

\* C24: when sites is not in the allow-list, the site paths come from a sites
\* query that indexes nothing: no site document is staged, no permission is
\* resolved for a site, the sites level of the registry is as it was, and the
\* lists stage queries the lists of every site path returned.
C24_UnindexedSitesQuery ==
    probe.done /\ ~probe.out.crashed /\ SITES \notin Configured
        => /\ \A r \in probe.out.recorded : r[1] # "sites"
           /\ SITES \notin probe.out.permitted
           /\ probe.out.ids.sites = EmptyRegistry.sites
           /\ <<SITES>> \notin probe.out.queried
           /\ LISTS \in Range(probe.out.ran)
                => /\ <<SITES>> \in probe.out.requeried
                   /\ \A f \in probe.out.found :
                        f[1] = SITES => <<LISTS, f[2]>> \in probe.out.queried

\* C24 witness: with lists alone configured and permissions propagated, the
\* unindexed sites query returned both sites, the lists of both were queried and
\* lists were staged with their permissions.
C24_Witness ==
    /\ probe.done
    /\ ~probe.out.crashed
    /\ data.objects = <<LISTS>>
    /\ data.enable_permission
    /\ probe.out.requeried = {<<SITES>>}
    /\ probe.out.sites = {"/a", "/b"}
    /\ {<<LISTS, "/a">>, <<LISTS, "/b">>} \subseteq probe.out.queried
    /\ LISTS \in probe.out.permitted
    /\ \E r \in probe.out.recorded : r[1] = "lists"

\* C25: for every document type and every field configuration (include-list,
\* exclude-list, both or neither) the field map get_schema_fields returns has an
\* id entry, mapped to GUID for items and to Id for sites and lists.
C25_IdAlwaysInFieldMap ==
    probe.done
        => /\ "id" \in DOMAIN probe.schema
           /\ probe.schema["id"] =
                IF probe.document_name = ITEMS THEN "GUID" ELSE "Id"

\* C26: for a window with start == end the coordinator runs one partition, on
\* one worker whatever worker_process says, no flag reports a failure, and the
\* checkpoint and the registry are written as after a successful cycle.
C26_EmptyWindowRunsOnePartition ==
    [][/\ pc' \in {"start_jobs", "join", "commit"}
          /\ window'.start_time = window'.end_time
          => Len(jobs') = 1
       /\ CommitStep /\ window.start_time = window.end_time /\ NoWorkerFailed
          => /\ checkpoint'[Collections[coll]] =
                    [present |-> TRUE, time |-> window.end_time]
             /\ storage_with_collection'.global_keys[Collections[coll]] = storage]_vars

\* C27: in the lists stage of a partition the batch submitted after a site
\* holds the list documents of that site alone, so that no list document is in
\* two batches of the run.
C27_ListSubmittedOnce ==
    probe.done
        => /\ \A b \in DOMAIN probe.batches :
                \A d \in DOMAIN probe.batches[b] :
                    probe.batches[b][d][1] = probe.batches[b][1][1]
           /\ \A b, c \in DOMAIN probe.batches :
                b # c => Range(probe.batches[b]) \cap Range(probe.batches[c]) = {}

\* C28: every grant pushed while the permissions of a document are resolved
\* carries a permission label that is an entry of the document's
\* _allow_permissions, whatever the identity-mapping table holds.
C28_GrantedLabelIsAllowed ==
    probe.done /\ ~probe.uncaught
        => \A i \in DOMAIN probe.grants : probe.grants[i][2] \in Range(probe.groups)

=============================================================================
